---- MODULE Spec2Model ----
(***************************************************************************)
(* State-machine model of the E-Learning desktop application (src/main.py).*)
(* The SQLite store (users, courses, enrollments and their AUTOINCREMENT   *)
(* counters), the session (current_user), the raised frame and the widget  *)
(* state the handlers read back (tree rows, tree focus, the packed state   *)
(* of the progress panel) are the variables; every button handler is one   *)
(* action.  Entry texts are sequences of one-character strings so that     *)
(* str.strip, len, str.isdigit, int and str.lower are computed.            *)
(***************************************************************************)
EXTENDS Integers, Sequences, FiniteSets, TLC

----------------------------------------------------------------------------
(* Bounds of the model: the largest id each specification lets a table hand *)
(* out (AUTOINCREMENT never reuses an id, so these also bound the number of *)
(* rows ever inserted).  The seeded admin takes user id 1.                  *)

\* Spec, the whole application
MaxUsers == 3
MaxCourses == 1
MaxEnrollments == 2
\* SpecAuth, the account handlers
AuthMaxUsers == 3
\* SpecCatalog, the course handlers
CatalogMaxUsers == 3
CatalogMaxCourses == 2
\* SpecProgress, the enrollment handlers
ProgressMaxUsers == 3
ProgressMaxCourses == 1
ProgressMaxEnrollments == 2
\* SpecIds, the handlers that insert and delete rows
IdsMaxUsers == 4
IdsMaxCourses == 2
IdsMaxEnrollments == 2

----------------------------------------------------------------------------
(* Texts typed into the entry widgets *)

t_empty == << >>
t_admin == <<"a", "d", "m", "i", "n">>
t_admin123 == <<"a", "d", "m", "i", "n", "1", "2", "3">>
t_alice == <<"a", "l", "i", "c", "e">>
t_Alice == <<"A", "l", "i", "c", "e">>
t_alice_sp == <<"a", "l", "i", "c", "e", " ">>
t_bob == <<"b", "o", "b">>
t_secret == <<"s", "e", "c", "r", "e", "t">>
t_sp_secret == <<" ", "s", "e", "c", "r", "e", "t">>
t_hunter == <<"h", "u", "n", "t", "e", "r">>
t_short == <<"s", "h", "o", "r", "t">>

\* SpecAuth: empty, too short, differing in case or in surrounding blanks
UsernameTexts == {t_empty, t_bob, t_alice, t_Alice, t_alice_sp, t_admin}
PasswordTexts == {t_empty, t_short, t_secret, t_sp_secret, t_hunter, t_admin123}
\* register offers one valid password, change_password a second one
RegisterPasswordTexts == {t_short, t_secret, t_sp_secret}
NewPasswordTexts == {t_short, t_secret, t_sp_secret, t_hunter}
ConfirmTexts == {t_secret, t_hunter, t_short}
CurrentPasswordTexts == {t_empty, t_secret, t_sp_secret, t_hunter}
\* the values of the read-only role selector of the register frame
RegisterRoles == {"Student", "Instructor"}
\* role arguments a caller of add_user can pass
RoleArguments == {"Student", "Instructor", "Admin", "Guest"}

\* Spec: one password, two user names
FewUsernameTexts == {t_bob, t_alice, t_Alice, t_admin}
FewPasswordTexts == {t_hunter, t_secret, t_admin123}
OnePasswordText == {t_secret}
TitleTexts == {t_empty, <<"M">>, <<"m", " ">>, <<"A">>}
DescriptionTexts == {<<"d">>}
PriceTexts == {<<"5">>, <<"-", "1">>, <<"x">>}
ProgressTexts == {<<"7", "5">>, <<"1", "0", "1">>, <<"7", "a">>, <<"-", "5">>}
SearchTexts == {t_empty, <<"M">>}

\* SpecIds: one title, so that a course is created again after its deletion
IdsTitleTexts == {<<"M">>}

\* SpecProgress: two titles, one price
ProgressTitleTexts == {<<"M">>, <<"m", " ">>}
ProgressPriceTexts == {<<"5">>}

\* SpecCatalog: two registrable user names, two titles that differ in case
CatalogUsernameTexts == {t_alice, t_Alice, t_admin}
CatalogPasswordTexts == {t_secret, t_admin123}
CatalogTitleTexts == {t_empty, <<"M">>, <<"m", " ">>}
CatalogPriceTexts == {<<"5">>, <<"x">>}

----------------------------------------------------------------------------
(* Python string functions *)

IsSpace(c) == c = " "

RECURSIVE lstrip(_)
lstrip(s) == IF s # << >> /\ IsSpace(Head(s)) THEN lstrip(Tail(s)) ELSE s

RECURSIVE rstrip(_)
rstrip(s) ==
    IF s # << >> /\ IsSpace(s[Len(s)]) THEN rstrip(SubSeq(s, 1, Len(s) - 1)) ELSE s

strip(s) == rstrip(lstrip(s))

Digits == {"0", "1", "2", "3", "4", "5", "6", "7", "8", "9"}

DigitVal(c) ==
    CASE c = "0" -> 0 [] c = "1" -> 1 [] c = "2" -> 2 [] c = "3" -> 3
      [] c = "4" -> 4 [] c = "5" -> 5 [] c = "6" -> 6 [] c = "7" -> 7
      [] c = "8" -> 8 [] c = "9" -> 9

isdigit(s) == s # << >> /\ \A i \in 1..Len(s) : s[i] \in Digits

RECURSIVE int(_)
int(s) == IF s = << >> THEN 0 ELSE 10 * int(SubSeq(s, 1, Len(s) - 1)) + DigitVal(s[Len(s)])

LowerChar(c) == CASE c = "A" -> "a" [] c = "M" -> "m" [] OTHER -> c

lower(s) == [i \in 1..Len(s) |-> LowerChar(s[i])]

\* Python's `q in s` on strings: q is a contiguous substring of s
contains(s, q) ==
    \E i \in 0..(Len(s) - Len(q)) : SubSeq(s, i + 1, i + Len(q)) = q

----------------------------------------------------------------------------
(* bcrypt: the digest is opaque; checkpw succeeds exactly for the plaintext *)
(* the digest was derived from (the salt does not affect verification).     *)

hashpw(password) == <<"bcrypt", password>>

\* a verification that accepts any plaintext
checkpw_any(password, hashed) == TRUE

checkpw(password, hashed) == hashed = hashpw(password)

----------------------------------------------------------------------------
VARIABLES
    users,              \* rows of table users: [id, username, password, role]
    courses,            \* rows of table courses: [id, title, description, instructor_id, price]
    enrollments,        \* rows of table enrollments: [id, student_id, course_id, progress]
    seq_users,          \* sqlite_sequence entry of users (AUTOINCREMENT)
    seq_courses,        \* sqlite_sequence entry of courses
    seq_enrollments,    \* sqlite_sequence entry of enrollments
    current_user,       \* E_LearningApp.current_user
    top,                \* the frame raised last (the visible one)
    last,               \* <<handler, title>> of the message box the last handler showed, or none
                        \* (create_course adds which of its two "Error" messages it was)
    stu_courses_tree,   \* StudentDashboard.courses_tree: course ids of the rows
    stu_focus,          \* StudentDashboard.courses_tree.focus(): a course id or 0
    ins_courses_tree,   \* InstructorDashboard.courses_tree
    ins_focus,          \* InstructorDashboard.courses_tree.focus()
    adm_users_tree,     \* AdminDashboard.users_tree: rows [id, username, role]
    adm_users_focus,    \* AdminDashboard.users_tree.focus(): a user id or 0
    adm_courses_tree,   \* AdminDashboard.courses_tree
    adm_courses_focus,  \* AdminDashboard.courses_tree.focus()
    view_mode,          \* CourseDetailsFrame.view_mode
    previous_frame,     \* CourseDetailsFrame.previous_frame
    progress_packed     \* CourseDetailsFrame.progress_frame is packed (visible)

dbVars == <<users, courses, enrollments, seq_users, seq_courses, seq_enrollments>>
stuVars == <<stu_courses_tree, stu_focus>>
insVars == <<ins_courses_tree, ins_focus>>
admUsersVars == <<adm_users_tree, adm_users_focus>>
admCoursesVars == <<adm_courses_tree, adm_courses_focus>>
cdVars == <<view_mode, previous_frame, progress_packed>>
treeVars == <<stuVars, insVars, admUsersVars, admCoursesVars>>
vars == <<dbVars, current_user, top, last, treeVars, cdVars>>

NoUser == [id |-> 0, username |-> t_empty, role |-> "None"]

----------------------------------------------------------------------------
(* DatabaseHandler *)

\* connect() issues no PRAGMA foreign_keys, so SQLite leaves the declared
\* FOREIGN KEY clauses unenforced
foreign_keys == FALSE

\* the largest id among rows, 0 for an empty table
max_rowid(rows) ==
    IF rows = {} THEN 0
    ELSE CHOOSE m \in {r.id : r \in rows} : \A r \in rows : r.id <= m

\* INTEGER PRIMARY KEY declared without AUTOINCREMENT: one more than the
\* largest id present in the table
rowid_max_plus_one(rows, sq) == max_rowid(rows) + 1

\* INTEGER PRIMARY KEY AUTOINCREMENT: one more than the largest id the table
\* ever held, which sqlite_sequence records (sq)
autoincrement(rows, sq) == sq + 1

\* a seed whose password is not the documented one
default_admin_other_password(id) ==
    [id |-> id, username |-> t_admin, password |-> hashpw(t_admin), role |-> "Admin"]

\* the row seeded by setup_database when no Admin row exists
default_admin(id) ==
    [id |-> id, username |-> t_admin, password |-> hashpw(t_admin123), role |-> "Admin"]

\* users after setup_database ran on the store us with sequence value sq
setup_users(us, sq) ==
    IF \E u \in us : u.role = "Admin" THEN us ELSE us \cup {default_admin(autoincrement(us, sq))}

setup_seq(us, sq) == IF \E u \in us : u.role = "Admin" THEN sq ELSE sq + 1

\* table users declared without UNIQUE(username)
users_integrity_error_none(us, username) == FALSE

\* UNIQUE(username) of table users: TRUE when the INSERT raises IntegrityError
users_integrity_error(us, username) == \E u \in us : u.username = username

\* CHECK(role IN ('Student', 'Instructor', 'Admin')) of table users: TRUE when
\* the INSERT raises IntegrityError
users_check_error(role) == role \notin {"Student", "Instructor", "Admin"}

\* add_user: the store after the call (unchanged on IntegrityError)
add_user(us, sq, username, password, role) ==
    IF users_integrity_error(us, username) \/ users_check_error(role) THEN us
    ELSE us \cup {[id |-> autoincrement(us, sq), username |-> username,
                   password |-> hashpw(password), role |-> role]}

\* cursor.fetchone() on a result set: its first row (lowest rowid)
fetchone(rows) == CHOOSE r \in rows : \A q \in rows : r.id <= q.id

\* get_user: the rows SELECT * FROM users WHERE username = ? yields; the
\* caller gets fetchone of them, or None when there is none
get_user(us, username) == {u \in us : u.username = username}

get_all_users(us) == {[id |-> u.id, username |-> u.username, role |-> u.role] : u \in us}

delete_user(us, user_id) == {u \in us : u.id # user_id}

\* table courses declared without UNIQUE(title)
courses_integrity_error_none(cs, title) == FALSE

\* UNIQUE(title) of table courses
courses_integrity_error(cs, title) == \E c \in cs : c.title = title

add_course(cs, sq, title, description, instructor_id, price) ==
    IF courses_integrity_error(cs, title) THEN cs
    ELSE cs \cup {[id |-> autoincrement(cs, sq), title |-> title, description |-> description,
                   instructor_id |-> instructor_id, price |-> price]}

\* get_all_courses: courses JOIN users ON instructor_id = users.id
get_all_courses(cs, us) == {c \in cs : \E u \in us : u.id = c.instructor_id}

\* a listing that is not restricted to the instructor
get_instructor_courses_all(cs, instructor_id) == cs

get_instructor_courses(cs, instructor_id) == {c \in cs : c.instructor_id = instructor_id}

delete_course(cs, course_id) == {c \in cs : c.id # course_id}

\* table enrollments declares no UNIQUE constraint, and its foreign keys are
\* enforced only when foreign_keys is on
enrollments_integrity_error(es, us, cs, student_id, course_id) ==
    foreign_keys /\ ~ ((\E u \in us : u.id = student_id) /\ (\E c \in cs : c.id = course_id))

enroll_student(es, us, cs, sq, student_id, course_id) ==
    IF enrollments_integrity_error(es, us, cs, student_id, course_id) THEN es
    ELSE es \cup {[id |-> autoincrement(es, sq), student_id |-> student_id,
                   course_id |-> course_id, progress |-> 0]}

Ids(rows) == {r.id : r \in rows}

----------------------------------------------------------------------------
Init ==
    /\ users = setup_users({}, 0)
    /\ seq_users = setup_seq({}, 0)
    /\ courses = {}
    /\ enrollments = {}
    /\ seq_courses = 0
    /\ seq_enrollments = 0
    /\ current_user = NoUser
    /\ top = "LoginFrame"
    /\ last = <<"none", "none">>
    /\ stu_courses_tree = {}
    /\ stu_focus = 0
    /\ ins_courses_tree = {}
    /\ ins_focus = 0
    /\ adm_users_tree = {}
    /\ adm_users_focus = 0
    /\ adm_courses_tree = {}
    /\ adm_courses_focus = 0
    /\ view_mode = "student"
    /\ previous_frame = "unset"
    /\ progress_packed = TRUE

----------------------------------------------------------------------------
(* Widget refreshes.  Reloading a Treeview deletes its rows, which clears *)
(* its focus item.                                                         *)

\* StudentDashboard.load_courses
StudentLoadCourses(rows) ==
    /\ stu_courses_tree' = Ids(rows)
    /\ stu_focus' = 0

\* InstructorDashboard.load_courses, for session user id uid on courses cs
InstructorLoadCourses(cs, uid) ==
    /\ ins_courses_tree' = Ids(get_instructor_courses(cs, uid))
    /\ ins_focus' = 0

\* AdminDashboard.load_users
AdminLoadUsers(rows) ==
    /\ adm_users_tree' = rows
    /\ adm_users_focus' = 0

\* AdminDashboard.load_courses
AdminLoadCourses(cs, us) ==
    /\ adm_courses_tree' = Ids(get_all_courses(cs, us))
    /\ adm_courses_focus' = 0

\* F.refresh() of a dashboard F, with session user su
RefreshDashboard(frame, su) ==
       CASE frame = "StudentDashboard" ->
                /\ StudentLoadCourses(get_all_courses(courses, users))
                /\ UNCHANGED <<insVars, admUsersVars, admCoursesVars>>
         [] frame = "InstructorDashboard" ->
                /\ InstructorLoadCourses(courses, su.id)
                /\ UNCHANGED <<stuVars, admUsersVars, admCoursesVars>>
         [] frame = "AdminDashboard" ->
                /\ AdminLoadUsers(get_all_users(users))
                /\ AdminLoadCourses(courses, users)
                /\ UNCHANGED <<stuVars, insVars>>

\* show_frame(F) for a dashboard F: F.refresh(), then F.tkraise()
ShowDashboard(frame, su) ==
    /\ RefreshDashboard(frame, su)
    /\ top' = frame

DashboardOf(role) ==
    CASE role = "Student" -> "StudentDashboard"
      [] role = "Instructor" -> "InstructorDashboard"
      [] role = "Admin" -> "AdminDashboard"

----------------------------------------------------------------------------
(* LoginFrame *)

\* the identity LoginFrame.login stores in current_user for the typed texts,
\* NoUser when it stores none
authenticate(us, username_text, password_text) ==
    LET username == strip(username_text)
        password == strip(password_text)
        found == get_user(us, username)
    IN  IF username = t_empty \/ password = t_empty \/ found = {} THEN NoUser
        ELSE LET user == fetchone(found) IN
             IF checkpw(password, user.password)
             THEN [id |-> user.id, username |-> user.username, role |-> user.role]
             ELSE NoUser

Login(username_text, password_text) ==
    /\ top = "LoginFrame"
    /\ LET su == authenticate(users, username_text, password_text) IN
       IF strip(username_text) = t_empty \/ strip(password_text) = t_empty THEN
            /\ last' = <<"login", "Input Error">>
            /\ UNCHANGED <<dbVars, current_user, top, treeVars, cdVars>>
       ELSE IF su # NoUser THEN
            /\ current_user' = su
            /\ last' = <<"login", "Login Successful">>
            /\ ShowDashboard(DashboardOf(su.role), su)
            /\ UNCHANGED <<dbVars, cdVars>>
       ELSE
            /\ last' = <<"login", "Login Failed">>
            /\ UNCHANGED <<dbVars, current_user, top, treeVars, cdVars>>

\* the Register button of the login frame
GoRegister ==
    /\ top = "LoginFrame"
    /\ top' = "RegisterFrame"
    /\ last' = <<"none", "none">>
    /\ UNCHANGED <<dbVars, current_user, treeVars, cdVars>>

\* The rows a hidden StudentDashboard or AdminDashboard still holds are never
\* read again: each of their handlers runs only while the dashboard is raised,
\* CourseDetailsFrame.refresh reads the student tree only when called from the
\* raised student dashboard, and every show_frame of a dashboard reloads its
\* trees (refresh) before raising it.  The model therefore stops tracking
\* them when the session ends.  The instructor tree is tracked throughout,
\* because update_progress reads its focus from the details frame.
ForgetReloadedTrees ==
    /\ stu_courses_tree' = {}
    /\ stu_focus' = 0
    /\ adm_users_tree' = {}
    /\ adm_users_focus' = 0
    /\ adm_courses_tree' = {}
    /\ adm_courses_focus' = 0

\* a logout that leaves the session set
logout_keeps_session ==
    /\ top \in {"StudentDashboard", "InstructorDashboard", "AdminDashboard",
                "CourseDetailsFrame", "ProfileFrame"}
    /\ top' = "LoginFrame"
    /\ last' = <<"none", "none">>
    /\ ForgetReloadedTrees
    /\ UNCHANGED <<dbVars, current_user, insVars, cdVars>>

\* E_LearningApp.logout, bound to the Logout button of every protected frame
Logout ==
    /\ top \in {"StudentDashboard", "InstructorDashboard", "AdminDashboard",
                "CourseDetailsFrame", "ProfileFrame"}
    /\ current_user' = NoUser
    /\ top' = "LoginFrame"
    /\ last' = <<"none", "none">>
    /\ ForgetReloadedTrees
    /\ UNCHANGED <<dbVars, insVars, cdVars>>

----------------------------------------------------------------------------
(* RegisterFrame *)

MinUsernameLen == 4
MinPasswordLen == 6

Register(username_text, password_text, confirm_text, role) ==
    /\ top = "RegisterFrame"
    /\ LET username == strip(username_text)
           password == strip(password_text)
           confirm == strip(confirm_text)
       IN
       IF username = t_empty \/ password = t_empty \/ confirm = t_empty
          \/ Len(username) < MinUsernameLen \/ Len(password) < MinPasswordLen
          \/ password # confirm THEN
            /\ last' = <<"register", "Input Error">>
            /\ UNCHANGED <<dbVars, current_user, top, treeVars, cdVars>>
       ELSE IF users_integrity_error(users, username) \/ users_check_error(role) THEN
            /\ users' = add_user(users, seq_users, username, password, role)
            /\ last' = <<"register", "Registration Failed">>
            /\ UNCHANGED <<courses, enrollments, seq_users, seq_courses, seq_enrollments,
                           current_user, top, treeVars, cdVars>>
       ELSE
            /\ users' = add_user(users, seq_users, username, password, role)
            /\ seq_users' = seq_users + 1
            /\ last' = <<"register", "Registration Successful">>
            /\ top' = "LoginFrame"
            /\ UNCHANGED <<courses, enrollments, seq_courses, seq_enrollments,
                           current_user, treeVars, cdVars>>

\* the Back to Login button
BackToLogin ==
    /\ top = "RegisterFrame"
    /\ top' = "LoginFrame"
    /\ last' = <<"none", "none">>
    /\ UNCHANGED <<dbVars, current_user, treeVars, cdVars>>

----------------------------------------------------------------------------
(* StudentDashboard *)

\* clicking a row of the courses tree gives it the focus
StudentSelectCourse(course_id) ==
    /\ top = "StudentDashboard"
    /\ course_id \in stu_courses_tree
    /\ stu_focus' = course_id
    /\ last' = <<"none", "none">>
    /\ UNCHANGED <<dbVars, current_user, top, stu_courses_tree, insVars,
                   admUsersVars, admCoursesVars, cdVars>>

\* StudentDashboard.search_courses
StudentSearchCourses(query_text) ==
    /\ top = "StudentDashboard"
    /\ LET query == lower(strip(query_text)) IN
       IF query = t_empty THEN
            /\ last' = <<"search_courses", "Input Error">>
            /\ UNCHANGED <<dbVars, current_user, top, treeVars, cdVars>>
       ELSE
            /\ StudentLoadCourses({c \in get_all_courses(courses, users) :
                                      contains(lower(c.title), query)})
            /\ last' = <<"none", "none">>
            /\ UNCHANGED <<dbVars, current_user, top, insVars, admUsersVars,
                           admCoursesVars, cdVars>>

\* the Show All button: load_courses()
StudentShowAll ==
    /\ top = "StudentDashboard"
    /\ StudentLoadCourses(get_all_courses(courses, users))
    /\ last' = <<"none", "none">>
    /\ UNCHANGED <<dbVars, current_user, top, insVars, admUsersVars,
                   admCoursesVars, cdVars>>

\* StudentDashboard.enroll_course
EnrollCourse ==
    /\ top = "StudentDashboard"
    /\ IF stu_focus = 0 THEN
            /\ last' = <<"enroll_course", "Selection Error">>
            /\ UNCHANGED <<dbVars, current_user, top, treeVars, cdVars>>
       ELSE IF enrollments_integrity_error(enrollments, users, courses,
                                           current_user.id, stu_focus) THEN
            /\ last' = <<"enroll_course", "Enrollment Failed">>
            /\ UNCHANGED <<dbVars, current_user, top, treeVars, cdVars>>
       ELSE
            /\ enrollments' = enroll_student(enrollments, users, courses,
                                             seq_enrollments, current_user.id, stu_focus)
            /\ seq_enrollments' = seq_enrollments + 1
            /\ last' = <<"enroll_course", "Enrollment">>
            /\ UNCHANGED <<users, courses, seq_users, seq_courses, current_user, top,
                           treeVars, cdVars>>

\* the Profile button of the student and instructor dashboards
ShowProfile ==
    /\ top \in {"StudentDashboard", "InstructorDashboard"}
    /\ top' = "ProfileFrame"
    /\ last' = <<"none", "none">>
    /\ UNCHANGED <<dbVars, current_user, treeVars, cdVars>>

----------------------------------------------------------------------------
(* InstructorDashboard *)

InstructorSelectCourse(course_id) ==
    /\ top = "InstructorDashboard"
    /\ course_id \in ins_courses_tree
    /\ ins_focus' = course_id
    /\ last' = <<"none", "none">>
    /\ UNCHANGED <<dbVars, current_user, top, ins_courses_tree, stuVars,
                   admUsersVars, admCoursesVars, cdVars>>

\* float(text) succeeds on the texts of PriceTexts that are an optional
\* minus sign followed by digits
float_ok(s) == isdigit(s) \/ (s # << >> /\ Head(s) = "-" /\ isdigit(Tail(s)))

float(s) == IF Head(s) = "-" THEN 0 - int(Tail(s)) ELSE int(s)

\* InstructorDashboard.create_course
CreateCourse(title_text, description_text, price_text) ==
    /\ top = "InstructorDashboard"
    /\ LET title == strip(title_text)
           description == strip(description_text)
           price == strip(price_text)
       IN
       IF title = t_empty \/ description = t_empty \/ price = t_empty THEN
            /\ last' = <<"create_course", "Input Error">>
            /\ UNCHANGED <<dbVars, current_user, top, treeVars, cdVars>>
       ELSE IF ~ float_ok(price) \/ float(price) < 0 THEN
            /\ last' = <<"create_course", "Error", "Please enter a valid positive price.">>
            /\ UNCHANGED <<dbVars, current_user, top, treeVars, cdVars>>
       ELSE IF courses_integrity_error(courses, title) THEN
            /\ courses' = add_course(courses, seq_courses, title, description,
                                     current_user.id, float(price))
            /\ last' = <<"create_course", "Error", "Course title already exists.">>
            /\ UNCHANGED <<users, enrollments, seq_users, seq_courses, seq_enrollments,
                           current_user, top, treeVars, cdVars>>
       ELSE
            /\ courses' = add_course(courses, seq_courses, title, description,
                                     current_user.id, float(price))
            /\ seq_courses' = seq_courses + 1
            /\ InstructorLoadCourses(courses', current_user.id)
            /\ last' = <<"create_course", "Success">>
            /\ UNCHANGED <<users, enrollments, seq_users, seq_enrollments, current_user,
                           top, stuVars, admUsersVars, admCoursesVars, cdVars>>

\* InstructorDashboard.delete_course; confirm is the answer to askyesno
InstructorDeleteCourse(confirm) ==
    /\ top = "InstructorDashboard"
    /\ IF ins_focus = 0 THEN
            /\ last' = <<"delete_course", "Selection Error">>
            /\ UNCHANGED <<dbVars, current_user, top, treeVars, cdVars>>
       ELSE IF ~ confirm THEN
            /\ last' = <<"delete_course", "Confirm Delete">>
            /\ UNCHANGED <<dbVars, current_user, top, treeVars, cdVars>>
       ELSE
            /\ courses' = delete_course(courses, ins_focus)
            /\ InstructorLoadCourses(courses', current_user.id)
            /\ last' = <<"delete_course", "Success">>
            /\ UNCHANGED <<users, enrollments, seq_users, seq_courses, seq_enrollments,
                           current_user, top, stuVars, admUsersVars, admCoursesVars, cdVars>>

----------------------------------------------------------------------------
(* CourseDetailsFrame *)

\* the View Course Details button of the student dashboard (mode "student")
\* and of the instructor dashboard (mode "instructor"):
\* show_frame(CourseDetailsFrame, mode), that is refresh(mode) and then tkraise
\* of the details frame, whatever refresh did
ViewCourseDetails(mode) ==
    /\ top = (IF mode = "student" THEN "StudentDashboard" ELSE "InstructorDashboard")
    /\ LET previous == IF mode = "student" THEN "StudentDashboard" ELSE "InstructorDashboard"
           selected == IF mode = "student" THEN stu_focus ELSE ins_focus
           course_details == {c \in get_all_courses(courses, users) : c.id = selected}
       IN
       /\ view_mode' = mode
       /\ previous_frame' = previous
       /\ top' = "CourseDetailsFrame"
       /\ IF selected = 0 THEN
               /\ last' = <<"view_details", "Selection Error">>
               /\ RefreshDashboard(previous, current_user)
               /\ UNCHANGED progress_packed
          ELSE IF course_details # {} THEN
               /\ last' = <<"none", "none">>
               /\ progress_packed' = (mode # "student")
               /\ UNCHANGED treeVars
          ELSE
               /\ last' = <<"view_details", "Error">>
               /\ RefreshDashboard(previous, current_user)
               /\ progress_packed' = (mode # "student")
    /\ UNCHANGED <<dbVars, current_user>>

\* the Back button: show_frame(self.previous_frame)
CourseDetailsBack ==
    /\ top = "CourseDetailsFrame"
    /\ ShowDashboard(previous_frame, current_user)
    /\ last' = <<"none", "none">>
    /\ UNCHANGED <<dbVars, current_user, cdVars>>

\* rows the bulk update selects: enrollments JOIN users, of one course
enrolled_rows(es, us, course_id) ==
    {e \in es : e.course_id = course_id /\ \E u \in us : u.id = e.student_id}

\* the UPDATE loop of update_progress over the selected rows
set_progress(es, rows, progress) ==
    {IF e \in rows THEN [e EXCEPT !.progress = progress] ELSE e : e \in es}

\* update_progress without the range check
in_range_any(p) == TRUE

\* 0 <= int(progress) <= 100 of update_progress
in_range(p) == 0 <= p /\ p <= 100

\* CourseDetailsFrame.update_progress; its button lies in progress_frame and
\* can be pressed only while that frame is packed
UpdateProgress(progress_text) ==
    /\ top = "CourseDetailsFrame"
    /\ progress_packed
    /\ LET progress == strip(progress_text) IN
       IF ~ isdigit(progress) \/ ~ in_range(int(progress)) THEN
            /\ last' = <<"update_progress", "Input Error">>
            /\ UNCHANGED enrollments
       ELSE IF ins_focus = 0 THEN
            /\ last' = <<"update_progress", "Selection Error">>
            /\ UNCHANGED enrollments
       ELSE IF enrolled_rows(enrollments, users, ins_focus) = {} THEN
            /\ last' = <<"update_progress", "Info">>
            /\ UNCHANGED enrollments
       ELSE
            /\ enrollments' = set_progress(enrollments,
                                  enrolled_rows(enrollments, users, ins_focus), int(progress))
            /\ last' = <<"update_progress", "Success">>
    /\ UNCHANGED <<users, courses, seq_users, seq_courses, seq_enrollments,
                   current_user, top, treeVars, cdVars>>

----------------------------------------------------------------------------
(* ProfileFrame *)

\* ProfileFrame.go_back
ProfileBack ==
    /\ top = "ProfileFrame"
    /\ ShowDashboard(DashboardOf(current_user.role), current_user)
    /\ last' = <<"none", "none">>
    /\ UNCHANGED <<dbVars, current_user, cdVars>>

MinNewPasswordLen == 6

\* change_password without the length check
too_short_never(new) == FALSE

\* len(new) < 6 of change_password
too_short(new) == Len(new) < MinNewPasswordLen

\* change_password that never writes the new digest
set_password_lost(us, user_id, password) == us

\* the UPDATE users SET password = ? WHERE id = ? of change_password
set_password(us, user_id, password) ==
    {IF u.id = user_id THEN [u EXCEPT !.password = hashpw(password)] ELSE u : u \in us}

\* ProfileFrame.change_password
ChangePassword(current_text, new_text, confirm_text) ==
    /\ top = "ProfileFrame"
    /\ LET current == strip(current_text)
           new == strip(new_text)
           confirm == strip(confirm_text)
           found == get_user(users, current_user.username)
       IN
       IF current = t_empty \/ new = t_empty \/ confirm = t_empty THEN
            /\ last' = <<"change_password", "Input Error">>
            /\ UNCHANGED users
       ELSE IF found = {} THEN
            \* user is None: user[2] raises TypeError, the handler ends there
            /\ last' = <<"change_password", "exception">>
            /\ UNCHANGED users
       ELSE IF ~ checkpw(current, fetchone(found).password) THEN
            /\ last' = <<"change_password", "Error">>
            /\ UNCHANGED users
       ELSE IF too_short(new) \/ new # confirm THEN
            /\ last' = <<"change_password", "Input Error">>
            /\ UNCHANGED users
       ELSE
            /\ users' = set_password(users, current_user.id, new)
            /\ last' = <<"change_password", "Success">>
    /\ UNCHANGED <<courses, enrollments, seq_users, seq_courses, seq_enrollments,
                   current_user, top, treeVars, cdVars>>

----------------------------------------------------------------------------
(* AdminDashboard *)

AdminSelectUser(user_id) ==
    /\ top = "AdminDashboard"
    /\ user_id \in Ids(adm_users_tree)
    /\ adm_users_focus' = user_id
    /\ last' = <<"none", "none">>
    /\ UNCHANGED <<dbVars, current_user, top, adm_users_tree, stuVars, insVars,
                   admCoursesVars, cdVars>>

AdminSelectCourse(course_id) ==
    /\ top = "AdminDashboard"
    /\ course_id \in adm_courses_tree
    /\ adm_courses_focus' = course_id
    /\ last' = <<"none", "none">>
    /\ UNCHANGED <<dbVars, current_user, top, adm_courses_tree, stuVars, insVars,
                   admUsersVars, cdVars>>

\* AdminDashboard.search_users
AdminSearchUsers(query_text) ==
    /\ top = "AdminDashboard"
    /\ LET query == lower(strip(query_text)) IN
       IF query = t_empty THEN
            /\ last' = <<"search_users", "Input Error">>
            /\ UNCHANGED <<dbVars, current_user, top, treeVars, cdVars>>
       ELSE
            /\ AdminLoadUsers({u \in get_all_users(users) : contains(lower(u.username), query)})
            /\ last' = <<"none", "none">>
            /\ UNCHANGED <<dbVars, current_user, top, stuVars, insVars, admCoursesVars, cdVars>>

\* the Show All button: load_users()
AdminShowAll ==
    /\ top = "AdminDashboard"
    /\ AdminLoadUsers(get_all_users(users))
    /\ last' = <<"none", "none">>
    /\ UNCHANGED <<dbVars, current_user, top, stuVars, insVars, admCoursesVars, cdVars>>

\* the row of the users tree that has the focus
focused_user == CHOOSE r \in adm_users_tree : r.id = adm_users_focus

\* delete_user without the own-account guard
is_own_account_never(row, su) == FALSE

\* the guard of AdminDashboard.delete_user on the selected row
is_own_account(row, su) == row.username = su.username

\* AdminDashboard.delete_user; confirm is the answer to askyesno
AdminDeleteUser(confirm) ==
    /\ top = "AdminDashboard"
    /\ IF adm_users_focus = 0 THEN
            /\ last' = <<"delete_user", "Selection Error">>
            /\ UNCHANGED <<dbVars, current_user, top, treeVars, cdVars>>
       ELSE IF is_own_account(focused_user, current_user) THEN
            /\ last' = <<"delete_user", "Error">>
            /\ UNCHANGED <<dbVars, current_user, top, treeVars, cdVars>>
       ELSE IF ~ confirm THEN
            /\ last' = <<"delete_user", "Confirm Delete">>
            /\ UNCHANGED <<dbVars, current_user, top, treeVars, cdVars>>
       ELSE
            /\ users' = delete_user(users, focused_user.id)
            /\ AdminLoadUsers(get_all_users(users'))
            /\ last' = <<"delete_user", "Success">>
            /\ UNCHANGED <<courses, enrollments, seq_users, seq_courses, seq_enrollments,
                           current_user, top, stuVars, insVars, admCoursesVars, cdVars>>

\* promote_user without the role guard
promotable_always(row) == TRUE

\* the guard of AdminDashboard.promote_user on the selected row
promotable(row) == row.role = "Student"

\* promote_user writing the wrong role
set_admin(us, user_id) ==
    {IF u.id = user_id THEN [u EXCEPT !.role = "Admin"] ELSE u : u \in us}

\* the UPDATE users SET role = 'Instructor' WHERE id = ? of promote_user
set_instructor(us, user_id) ==
    {IF u.id = user_id THEN [u EXCEPT !.role = "Instructor"] ELSE u : u \in us}

\* AdminDashboard.promote_user
PromoteUser ==
    /\ top = "AdminDashboard"
    /\ IF adm_users_focus = 0 THEN
            /\ last' = <<"promote_user", "Selection Error">>
            /\ UNCHANGED <<dbVars, current_user, top, treeVars, cdVars>>
       ELSE IF ~ promotable(focused_user) THEN
            /\ last' = <<"promote_user", "Error">>
            /\ UNCHANGED <<dbVars, current_user, top, treeVars, cdVars>>
       ELSE
            /\ users' = set_instructor(users, focused_user.id)
            /\ AdminLoadUsers(get_all_users(users'))
            /\ last' = <<"promote_user", "Success">>
            /\ UNCHANGED <<courses, enrollments, seq_users, seq_courses, seq_enrollments,
                           current_user, top, stuVars, insVars, admCoursesVars, cdVars>>

\* AdminDashboard.delete_course
AdminDeleteCourse(confirm) ==
    /\ top = "AdminDashboard"
    /\ IF adm_courses_focus = 0 THEN
            /\ last' = <<"admin_delete_course", "Selection Error">>
            /\ UNCHANGED <<dbVars, current_user, top, treeVars, cdVars>>
       ELSE IF ~ confirm THEN
            /\ last' = <<"admin_delete_course", "Confirm Delete">>
            /\ UNCHANGED <<dbVars, current_user, top, treeVars, cdVars>>
       ELSE
            /\ courses' = delete_course(courses, adm_courses_focus)
            /\ AdminLoadCourses(courses', users)
            /\ last' = <<"admin_delete_course", "Success">>
            /\ UNCHANGED <<users, enrollments, seq_users, seq_courses, seq_enrollments,
                           current_user, top, stuVars, insVars, admUsersVars, cdVars>>

----------------------------------------------------------------------------
(* Closing the window and starting the program again: the database file *)
(* stays, E_LearningApp.__init__ runs setup_database and rebuilds the    *)
(* frames.                                                               *)

Restart ==
    /\ users' = setup_users(users, seq_users)
    /\ seq_users' = setup_seq(users, seq_users)
    /\ current_user' = NoUser
    /\ top' = "LoginFrame"
    /\ last' = <<"none", "none">>
    /\ stu_courses_tree' = {}
    /\ stu_focus' = 0
    /\ ins_courses_tree' = {}
    /\ ins_focus' = 0
    /\ adm_users_tree' = {}
    /\ adm_users_focus' = 0
    /\ adm_courses_tree' = {}
    /\ adm_courses_focus' = 0
    /\ view_mode' = "student"
    /\ previous_frame' = "unset"
    /\ progress_packed' = TRUE
    /\ UNCHANGED <<courses, enrollments, seq_courses, seq_enrollments>>

----------------------------------------------------------------------------
(* Spec: every handler of the application *)

UsersWithin(n) == seq_users <= n

CoursesWithin(n) == seq_courses <= n

EnrollmentsWithin(n) == seq_enrollments <= n

Next ==
    \/ \E u \in FewUsernameTexts, p \in FewPasswordTexts : Login(u, p)
    \/ GoRegister
    \/ Logout
    \/ \E u \in FewUsernameTexts, p \in OnePasswordText, c \in ConfirmTexts,
          r \in RegisterRoles : Register(u, p, c, r) /\ UsersWithin(MaxUsers)'
    \/ BackToLogin
    \/ \E c \in 1..MaxCourses : StudentSelectCourse(c)
    \/ \E q \in SearchTexts : StudentSearchCourses(q)
    \/ StudentShowAll
    \/ EnrollCourse /\ EnrollmentsWithin(MaxEnrollments)'
    \/ ShowProfile
    \/ \E c \in 1..MaxCourses : InstructorSelectCourse(c)
    \/ \E t \in TitleTexts, d \in DescriptionTexts, p \in PriceTexts :
          CreateCourse(t, d, p) /\ CoursesWithin(MaxCourses)'
    \/ \E confirm \in BOOLEAN : InstructorDeleteCourse(confirm)
    \/ \E mode \in {"student", "instructor"} : ViewCourseDetails(mode)
    \/ CourseDetailsBack
    \/ \E t \in ProgressTexts : UpdateProgress(t)
    \/ ProfileBack
    \/ \E c \in FewPasswordTexts, n \in OnePasswordText, k \in ConfirmTexts :
          ChangePassword(c, n, k)
    \/ \E u \in 1..MaxUsers : AdminSelectUser(u)
    \/ \E c \in 1..MaxCourses : AdminSelectCourse(c)
    \/ \E q \in SearchTexts : AdminSearchUsers(q)
    \/ AdminShowAll
    \/ \E confirm \in BOOLEAN : AdminDeleteUser(confirm)
    \/ PromoteUser
    \/ \E confirm \in BOOLEAN : AdminDeleteCourse(confirm)
    \/ Restart /\ UsersWithin(MaxUsers)'

Spec == Init /\ [][Next]_vars

----------------------------------------------------------------------------
(* SpecAuth: the handlers that read or write table users and the session; *)
(* no other handler writes either of them.                                *)

NextAuth ==
    \/ \E u \in UsernameTexts, p \in PasswordTexts : Login(u, p)
    \/ GoRegister
    \/ Logout
    \/ \E u \in UsernameTexts, p \in RegisterPasswordTexts, c \in ConfirmTexts,
          r \in RegisterRoles : Register(u, p, c, r) /\ UsersWithin(AuthMaxUsers)'
    \/ BackToLogin
    \/ ShowProfile
    \/ ProfileBack
    \/ \E c \in CurrentPasswordTexts, n \in NewPasswordTexts, k \in ConfirmTexts :
          ChangePassword(c, n, k)
    \/ \E u \in 1..AuthMaxUsers : AdminSelectUser(u)
    \/ \E q \in SearchTexts : AdminSearchUsers(q)
    \/ AdminShowAll
    \/ \E confirm \in BOOLEAN : AdminDeleteUser(confirm)
    \/ PromoteUser
    \/ Restart /\ UsersWithin(AuthMaxUsers)'

SpecAuth == Init /\ [][NextAuth]_vars

----------------------------------------------------------------------------
(* SpecCatalog: the handlers that read or write table courses, and those  *)
(* that create, promote and delete the users who own courses.             *)

NextCatalog ==
    \/ \E u \in CatalogUsernameTexts, p \in CatalogPasswordTexts : Login(u, p)
    \/ GoRegister
    \/ Logout
    \/ \E u \in CatalogUsernameTexts, p \in OnePasswordText, c \in OnePasswordText,
          r \in RegisterRoles : Register(u, p, c, r) /\ UsersWithin(CatalogMaxUsers)'
    \/ BackToLogin
    \/ \E c \in 1..CatalogMaxCourses : InstructorSelectCourse(c)
    \/ \E t \in CatalogTitleTexts, d \in DescriptionTexts, p \in CatalogPriceTexts :
          CreateCourse(t, d, p) /\ CoursesWithin(CatalogMaxCourses)'
    \/ \E confirm \in BOOLEAN : InstructorDeleteCourse(confirm)
    \/ \E u \in 1..CatalogMaxUsers : AdminSelectUser(u)
    \/ \E c \in 1..CatalogMaxCourses : AdminSelectCourse(c)
    \/ \E confirm \in BOOLEAN : AdminDeleteUser(confirm)
    \/ PromoteUser
    \/ \E confirm \in BOOLEAN : AdminDeleteCourse(confirm)
    \/ Restart /\ UsersWithin(CatalogMaxUsers)'

SpecCatalog == Init /\ [][NextCatalog]_vars

----------------------------------------------------------------------------
(* SpecProgress: the handlers that read or write table enrollments, and   *)
(* those that bring a student, an instructor and a course into the store. *)

NextProgress ==
    \/ \E u \in CatalogUsernameTexts, p \in CatalogPasswordTexts : Login(u, p)
    \/ GoRegister
    \/ Logout
    \/ \E u \in CatalogUsernameTexts, p \in OnePasswordText, c \in OnePasswordText,
          r \in RegisterRoles : Register(u, p, c, r) /\ UsersWithin(ProgressMaxUsers)'
    \/ \E c \in 1..ProgressMaxCourses : StudentSelectCourse(c)
    \/ EnrollCourse /\ EnrollmentsWithin(ProgressMaxEnrollments)'
    \/ \E c \in 1..ProgressMaxCourses : InstructorSelectCourse(c)
    \/ \E t \in ProgressTitleTexts, d \in DescriptionTexts, p \in ProgressPriceTexts :
          CreateCourse(t, d, p) /\ CoursesWithin(ProgressMaxCourses)'
    \/ \E mode \in {"student", "instructor"} : ViewCourseDetails(mode)
    \/ CourseDetailsBack
    \/ \E t \in ProgressTexts : UpdateProgress(t)

SpecProgress == Init /\ [][NextProgress]_vars

----------------------------------------------------------------------------
(* SpecIds: the handlers that insert rows into the three tables and those *)
(* that delete rows.                                                      *)

NextIds ==
    \/ \E u \in CatalogUsernameTexts, p \in CatalogPasswordTexts : Login(u, p)
    \/ GoRegister
    \/ Logout
    \/ \E u \in CatalogUsernameTexts, p \in OnePasswordText, c \in OnePasswordText,
          r \in RegisterRoles : Register(u, p, c, r) /\ UsersWithin(IdsMaxUsers)'
    \/ \E c \in 1..IdsMaxCourses : StudentSelectCourse(c)
    \/ EnrollCourse /\ EnrollmentsWithin(IdsMaxEnrollments)'
    \/ \E c \in 1..IdsMaxCourses : InstructorSelectCourse(c)
    \/ \E t \in IdsTitleTexts, d \in DescriptionTexts, p \in ProgressPriceTexts :
          CreateCourse(t, d, p) /\ CoursesWithin(IdsMaxCourses)'
    \/ InstructorDeleteCourse(TRUE)
    \/ \E u \in 1..IdsMaxUsers : AdminSelectUser(u)
    \/ AdminDeleteUser(TRUE)

SpecIds == Init /\ [][NextIds]_vars

----------------------------------------------------------------------------
(* Claims checked under Spec *)

\* C1: the Enrollments relation holds at most one row per (student, course)
\* pair in every reachable state (a second enroll of the same pair fails and
\* writes nothing).
C1_OneRowPerPair ==
    \A e1 \in enrollments : \A e2 \in enrollments :
        (e1.student_id = e2.student_id /\ e1.course_id = e2.course_id) => e1 = e2

\* C2: referential integrity: every Enrollment row's student designates an
\* existing User row and its course designates an existing Course row.
C2_ReferentialIntegrity ==
    \A e \in enrollments :
        /\ \E u \in users : u.id = e.student_id
        /\ \E c \in courses : c.id = e.course_id

\* the enrollment rows whose progress a step changes
ProgressChanged ==
    {e \in enrollments : \E f \in enrollments' : f.id = e.id /\ f.progress # e.progress}

\* C3: a step changes the progress of enrollments only while the session's
\* role is Instructor, and only for rows of a course the session's identity
\* owns; a Student or Admin session never changes any enrollment's progress.
C3_BulkProgressPolicy ==
    [][ProgressChanged # {} =>
            /\ current_user.role = "Instructor"
            /\ \A e \in ProgressChanged :
                   \E c \in courses : c.id = e.course_id /\ c.instructor_id = current_user.id
       ]_vars

\* C5: a bulk progress update with a valid value p on the selected course
\* sets progress = p on every Enrollment row of that course and leaves the
\* rows of every other course unchanged.
C5_BulkSetsEveryRow ==
    [][\A t \in ProgressTexts :
          (/\ UpdateProgress(t)
           /\ isdigit(strip(t)) /\ int(strip(t)) <= 100
           /\ ins_focus # 0)
          => /\ \A e \in enrollments' :
                    e.course_id = ins_focus => e.progress = int(strip(t))
             /\ \A e \in enrollments :
                    e.course_id # ins_focus => e \in enrollments'
       ]_vars

\* the frames that carry a Logout button
ProtectedFrames ==
    {"StudentDashboard", "InstructorDashboard", "AdminDashboard",
     "CourseDetailsFrame", "ProfileFrame"}

\* C21: whenever a protected screen is the active frame, the session is set
\* and the screen and its enabled controls correspond to the session's role:
\* each dashboard is raised for its own role only, the details frame for a
\* Student or Instructor session and with the progress panel packed for an
\* Instructor session only, the profile frame for a role that has a Profile
\* button; so no handler reads the identity of an empty session.
C21_ScreenMatchesSession ==
    top \in ProtectedFrames =>
        /\ current_user # NoUser
        /\ top \in {"StudentDashboard", "InstructorDashboard", "AdminDashboard"}
               => top = DashboardOf(current_user.role)
        /\ top = "CourseDetailsFrame"
               => /\ current_user.role \in {"Student", "Instructor"}
                  /\ previous_frame = DashboardOf(current_user.role)
                  /\ progress_packed => current_user.role = "Instructor"
        /\ top = "ProfileFrame" => current_user.role \in {"Student", "Instructor"}

----------------------------------------------------------------------------
(* Claims checked under SpecAuth *)

Admins == {u \in users : u.role = "Admin"}

\* C4: in every state reachable after first initialization the Users
\* relation contains exactly one row with role Admin.
C4_ExactlyOneAdmin == Cardinality(Admins) = 1

\* C4 witness: the admin asked to delete its own account and was refused,
\* with other users registered
C4_Witness ==
    /\ last = <<"delete_user", "Error">>
    /\ Cardinality(users) > 1

\* the session a successful login of the row u yields
IdentityOf(u) == [id |-> u.id, username |-> u.username, role |-> u.role]

\* a step of change_password that reported success, for the typed texts
ChangedPassword(c, n, k) ==
    ChangePassword(c, n, k) /\ last' = <<"change_password", "Success">>

\* C6 as stated: after a successful changePassword(user, current, new) the new
\* password authenticates and the current (old) one fails, for every pair of
\* passwords the operation accepts.
C6_OldFailsNewAuthenticates ==
    [][\A c \in CurrentPasswordTexts, n \in NewPasswordTexts, k \in ConfirmTexts :
          ChangedPassword(c, n, k) =>
              /\ authenticate(users', current_user.username, n) = current_user
              /\ authenticate(users', current_user.username, c) = NoUser
       ]_vars

\* C6 amended: after a successful changePassword the new password
\* authenticates, and the old one fails whenever the two differ once their
\* surrounding whitespace is stripped.
C6_OldFailsWhenDifferent ==
    [][\A c \in CurrentPasswordTexts, n \in NewPasswordTexts, k \in ConfirmTexts :
          ChangedPassword(c, n, k) =>
              /\ authenticate(users', current_user.username, n) = current_user
              /\ strip(c) # strip(n) =>
                     authenticate(users', current_user.username, c) = NoUser
       ]_vars

\* C6 witness: a password change succeeded and the stored digest is one that
\* register never writes
C6_Witness ==
    /\ last = <<"change_password", "Success">>
    /\ \E u \in users : u.id = current_user.id /\ u.password = hashpw(t_hunter)

\* a step of register that reported success, for the typed texts
Registered(u, p, c, r) ==
    Register(u, p, c, r) /\ last' = <<"register", "Registration Successful">>

\* the row a successful register inserted
NewUser == CHOOSE x \in users' : x \notin users

\* C7 as stated: after a successful register(username, password),
\* authenticate with the same texts yields the new user's (id, username,
\* role), and authenticate with any different password fails.
C7_AnyDifferentPasswordFails ==
    [][\A u \in UsernameTexts, p \in RegisterPasswordTexts, c \in ConfirmTexts,
          r \in RegisterRoles :
          Registered(u, p, c, r) =>
              /\ authenticate(users', u, p) = IdentityOf(NewUser)
              /\ NewUser.role = r
              /\ \A q \in PasswordTexts :
                     q # p => authenticate(users', u, q) = NoUser
       ]_vars

\* C7 amended: as C7, for every password that still differs after its
\* surrounding whitespace is stripped.
C7_DifferentStrippedPasswordFails ==
    [][\A u \in UsernameTexts, p \in RegisterPasswordTexts, c \in ConfirmTexts,
          r \in RegisterRoles :
          Registered(u, p, c, r) =>
              /\ authenticate(users', u, p) = IdentityOf(NewUser)
              /\ NewUser.role = r
              /\ \A q \in PasswordTexts :
                     strip(q) # strip(p) => authenticate(users', u, q) = NoUser
       ]_vars

\* C7 witness: a login succeeded for a registered (non-seeded) user
C7_Witness ==
    /\ last = <<"login", "Login Successful">>
    /\ current_user.username = t_alice
    /\ \E u \in users : IdentityOf(u) = current_user

UniqueUsernames ==
    \A u1 \in users : \A u2 \in users : u1.username = u2.username => u1 = u2

\* C8: usernames are unique across Users in every reachable state (compared
\* case-sensitively), and registering a username that is already present
\* fails and leaves the Users relation unchanged.
C8_DuplicateUsernameRejected ==
    /\ []UniqueUsernames
    /\ [][\A u \in UsernameTexts, p \in RegisterPasswordTexts, c \in ConfirmTexts,
             r \in RegisterRoles :
             (Register(u, p, c, r) /\ \E x \in users : x.username = strip(u))
                 => (users' = users /\ seq_users' = seq_users
                     /\ last'[2] \in {"Registration Failed", "Input Error"})
          ]_vars

\* C8 witness: a register was refused as a duplicate while two usernames
\* that differ only in case are both stored
C8_Witness ==
    /\ last = <<"register", "Registration Failed">>
    /\ \E u1 \in users : u1.username = t_alice
    /\ \E u2 \in users : u2.username = t_Alice

\* the users row the focused row of the admin's users tree designates
FocusedRow == {u \in users : adm_users_focus # 0 /\ u.id = adm_users_focus}

\* C9: promote changes the role to Instructor only when the user's current
\* role is Student; for an Instructor or Admin it is rejected and the store
\* is unchanged; after a successful promote a successful login of that user
\* yields a session with role Instructor (and no step takes the Instructor
\* role away from a row).
C9_PromoteOnlyStudents ==
    [][/\ PromoteUser =>
              \A u \in FocusedRow :
                  IF u.role = "Student"
                  THEN /\ users' = (users \ {u}) \cup {[u EXCEPT !.role = "Instructor"]}
                       /\ last' = <<"promote_user", "Success">>
                       /\ \A p \in PasswordTexts :
                              authenticate(users', u.username, p) # NoUser =>
                                  authenticate(users', u.username, p).role = "Instructor"
                  ELSE /\ users' = users
                       /\ last' = <<"promote_user", "Error">>
       /\ \A u \in users : \A v \in users' :
              (u.role = "Instructor" /\ v.id = u.id) => v.role = "Instructor"
       ]_vars

\* C9 witness: a promote succeeded and left an Instructor row
C9_Witness ==
    /\ last = <<"promote_user", "Success">>
    /\ \E u \in users : u.role = "Instructor"

\* C10: a delete-user request targeting the session's own user is rejected
\* with the store unchanged, and in every reachable state with a session set
\* the session's identity is a row of Users.
C10_SessionUserExists ==
    /\ [](current_user # NoUser => \E u \in users : IdentityOf(u) = current_user)
    /\ [][\A confirm \in BOOLEAN :
             (AdminDeleteUser(confirm) /\ adm_users_focus = current_user.id)
                 => (users' = users /\ last' = <<"delete_user", "Error">>)
          ]_vars

\* C10 witness: the admin selected its own row and the delete was refused
C10_Witness ==
    /\ last = <<"delete_user", "Error">>
    /\ adm_users_focus = current_user.id
    /\ current_user.role = "Admin"

----------------------------------------------------------------------------
(* Further claims checked under SpecAuth *)

C15_EveryRoleReachesProfile ==
    (current_user # NoUser /\ top = DashboardOf(current_user.role))
        => ENABLED ShowProfile

\* no Admin session is ever on the profile frame, where change_password runs
AdminNeverOnProfile == ~ (current_user.role = "Admin" /\ top = "ProfileFrame")

\* C16: a changePassword call that fails, because the supplied current
\* password does not verify against the stored hash or because the new
\* password is shorter than 6 characters, writes nothing: the stored hashes
\* are unchanged and every password authenticates the user as it did before.
C16_FailedChangeWritesNothing ==
    [][\A c \in CurrentPasswordTexts, n \in NewPasswordTexts, k \in ConfirmTexts :
          (/\ ChangePassword(c, n, k)
           /\ \/ \E u \in users : /\ u.id = current_user.id
                                  /\ ~ checkpw(strip(c), u.password)
              \/ Len(strip(n)) < 6)
          => /\ users' = users
             /\ last'[2] \in {"Error", "Input Error"}
             /\ \A p \in PasswordTexts :
                    authenticate(users', current_user.username, p)
                        = authenticate(users, current_user.username, p)
       ]_vars

\* C16 witness: a change was refused for a wrong current password
C16_Witness ==
    /\ last = <<"change_password", "Error">>
    /\ \E u \in users : IdentityOf(u) = current_user /\ u.password = hashpw(t_secret)

\* the store first initialization leaves: the seeded admin alone
FirstInitialized == users = setup_users({}, 0) /\ seq_users = setup_seq({}, 0)

\* C17: immediately after first initialization on an empty store,
\* authenticate("admin", "admin123") succeeds and yields a session whose role
\* is Admin (and a login with these texts sets that session).
C17_DefaultAdminAuthenticates ==
    /\ [](FirstInitialized =>
             /\ authenticate(users, t_admin, t_admin123) # NoUser
             /\ authenticate(users, t_admin, t_admin123).role = "Admin")
    /\ [][(FirstInitialized /\ Login(t_admin, t_admin123)) =>
             /\ current_user'.username = t_admin
             /\ current_user'.role = "Admin"
             /\ top' = "AdminDashboard"
          ]_vars

\* C17 witness: the seeded admin logged in on the freshly initialized store
C17_Witness ==
    /\ FirstInitialized
    /\ last = <<"login", "Login Successful">>
    /\ current_user.role = "Admin"

\* C20: session lifecycle: the session is empty at startup; it becomes set
\* only by a login whose authenticate succeeded, to exactly the id, username
\* and role of the authenticated row; a failed authenticate leaves it
\* unchanged; it is empty after logout; it holds one identity at most.
C20_SessionLifecycle ==
    /\ (Init => current_user = NoUser)
    /\ [](current_user \in {NoUser} \cup {IdentityOf(u) : u \in users})
    /\ [][/\ \A u \in UsernameTexts, p \in PasswordTexts :
                Login(u, p) =>
                    (IF authenticate(users, u, p) = NoUser
                     THEN current_user' = current_user
                     ELSE /\ current_user' = authenticate(users, u, p)
                          /\ \E row \in users :
                                 /\ row.username = strip(u)
                                 /\ checkpw(strip(p), row.password)
                                 /\ current_user' = IdentityOf(row))
          /\ (current_user' # current_user /\ current_user' # NoUser) =>
                  (\E u \in UsernameTexts, p \in PasswordTexts :
                      Login(u, p) /\ authenticate(users, u, p) # NoUser)
          /\ (Logout => current_user' = NoUser)
          /\ (Restart => current_user' = NoUser)
          ]_vars

\* C20 witness: a login failed with other accounts registered, and no session
\* is set
C20_Witness ==
    /\ last = <<"login", "Login Failed">>
    /\ current_user = NoUser
    /\ \E u \in users : u.role = "Instructor"

----------------------------------------------------------------------------
(* Claims checked under SpecCatalog *)

\* the course rows a step deletes
CoursesRemoved == courses \ courses'

\* C13: an Instructor session can delete only courses whose owning instructor
\* is the session's own identity: whatever logins, logouts, selections and
\* button presses came before, a step taken under an Instructor session
\* removes no course owned by another user, and the instructor's delete
\* handler runs under Instructor sessions only.
C13_InstructorDeletesOwnOnly ==
    [][/\ (current_user.role = "Instructor") =>
              \A c \in CoursesRemoved : c.instructor_id = current_user.id
       /\ \A confirm \in BOOLEAN :
              InstructorDeleteCourse(confirm) =>
                  /\ current_user.role = "Instructor"
                  /\ \A c \in CoursesRemoved : c.instructor_id = current_user.id
      ]_vars

\* C13 witness: an instructor deleted a course while a course of another
\* user was in the store
C13_Witness ==
    /\ last = <<"delete_course", "Success">>
    /\ current_user.role = "Instructor"
    /\ \E c \in courses : c.instructor_id # current_user.id

\* C14: an Admin can delete any course: whenever an Admin session is on its
\* dashboard, every Course row of the store is a row of the courses tree or
\* a row the next reload of the tree lists, so that the admin can select it
\* and delete it.
C14_AdminCanSelectEveryCourse ==
    (current_user.role = "Admin" /\ top = "AdminDashboard") =>
        \A c \in courses :
            c.id \in adm_courses_tree \/ c \in get_all_courses(courses, users)

UniqueTitles ==
    \A c1 \in courses : \A c2 \in courses : c1.title = c2.title => c1 = c2

\* C18: creating a course whose title equals the title of a course already
\* in the store fails and leaves the Courses relation unchanged; course
\* titles are unique across Courses in every reachable state.
C18_DuplicateTitleRejected ==
    /\ []UniqueTitles
    /\ [][\A t \in CatalogTitleTexts, d \in DescriptionTexts, p \in CatalogPriceTexts :
             (CreateCourse(t, d, p) /\ \E c \in courses : c.title = strip(t))
                 => (courses' = courses /\ seq_courses' = seq_courses
                     /\ last'[2] = "Error")
          ]_vars

\* C18 witness: a create was refused for its title while two courses with
\* different titles are stored
C18_Witness ==
    /\ last = <<"create_course", "Error", "Course title already exists.">>
    /\ Cardinality(courses) = 2

\* C19: in every reachable state, every Course's owning-instructor reference
\* designates an existing User row whose role is Instructor.
C19_CourseInstructorExists ==
    \A c \in courses :
        \E u \in users : u.id = c.instructor_id /\ u.role = "Instructor"

\* C22: in every reachable state the all-courses listing contains exactly
\* one entry for every Course row in the store: the ids get_all_courses
\* returns are the ids of Courses, so that a course that blocks a title as
\* duplicate is a course of the listing.
C22_ListingEqualsCourses ==
    /\ Ids(get_all_courses(courses, users)) = Ids(courses)
    /\ \A t \in CatalogTitleTexts :
           courses_integrity_error(courses, strip(t))
               => \E c \in get_all_courses(courses, users) : c.title = strip(t)

----------------------------------------------------------------------------
(* Claims checked under SpecProgress *)

\* C12: in every reachable state every Enrollment's progress is an integer
\* in [0,100]: a new enrollment starts at 0, and a progress update whose
\* value is outside 0..100 or not a number is rejected before any write,
\* leaving every Enrollment row unchanged.
C12_ProgressInRange ==
    /\ [](\A e \in enrollments : e.progress \in 0..100)
    /\ [][/\ EnrollCourse => \A e \in enrollments' \ enrollments : e.progress = 0
          /\ \A t \in ProgressTexts :
                 (UpdateProgress(t) /\ (~ isdigit(strip(t)) \/ int(strip(t)) > 100))
                     => (enrollments' = enrollments
                         /\ last' = <<"update_progress", "Input Error">>)
          ]_vars

\* C12 witness: an update was refused for its value after an earlier update
\* had set a progress
C12_Witness ==
    /\ last = <<"update_progress", "Input Error">>
    /\ \E e \in enrollments : e.progress = 75

----------------------------------------------------------------------------
(* Claims checked under SpecIds *)

UniqueIds(rows) == \A r1 \in rows : \A r2 \in rows : r1.id = r2.id => r1 = r2

\* C23: ids assigned by the store are strictly increasing within each
\* relation and never reused: every id a table holds or a row refers to is at
\* most the table's sequence value, a row that appears has an id above it,
\* and a reference to a deleted User or Course stays a reference to no row.
C23_IdsNeverReused ==
    /\ [](/\ UniqueIds(users) /\ UniqueIds(courses) /\ UniqueIds(enrollments)
          /\ \A u \in users : u.id <= seq_users
          /\ \A c \in courses : c.id <= seq_courses /\ c.instructor_id <= seq_users
          /\ \A e \in enrollments :
                 /\ e.id <= seq_enrollments
                 /\ e.student_id <= seq_users
                 /\ e.course_id <= seq_courses)
    /\ [][/\ seq_users' >= seq_users
          /\ seq_courses' >= seq_courses
          /\ seq_enrollments' >= seq_enrollments
          /\ \A u \in users' : u.id \notin Ids(users) => u.id > seq_users
          /\ \A c \in courses' : c.id \notin Ids(courses) => c.id > seq_courses
          /\ \A e \in enrollments' : e.id \notin Ids(enrollments) => e.id > seq_enrollments
          /\ \A c \in courses :
                 c.instructor_id \notin Ids(users) => c.instructor_id \notin Ids(users')
          /\ \A e \in enrollments :
                 /\ e.student_id \notin Ids(users) => e.student_id \notin Ids(users')
                 /\ e.course_id \notin Ids(courses) => e.course_id \notin Ids(courses')
          ]_vars

\* C23 witness: an enrollment refers to a deleted student and to a deleted
\* course, while both tables hold rows that were created after these two
C23_Witness ==
    \E e \in enrollments :
        /\ e.student_id \notin Ids(users)
        /\ e.course_id \notin Ids(courses)
        /\ \E u \in users : u.id > e.student_id
        /\ \E c \in courses : c.id > e.course_id

====
